---------------------------- MODULE Spec2Model ----------------------------
(***************************************************************************)
(* Model of the daily hotels report (src/src/automations/rates.py and      *)
(* src/src/automations/shared/hotels.py, rapid_api.py, mail.py).           *)
(*                                                                         *)
(* Python strings are sequences of code points (83 is "S", 32 is " ").     *)
(* Optional values (int | None, str | None) are records [some, val].       *)
(***************************************************************************)
EXTENDS Integers, Sequences, FiniteSets, Bags, TLC

(***************************************************************************)
(* Bounds of the model.                                                    *)
(***************************************************************************)
\* longest list handed to _best_rates on its own
MaxRates == 3
\* largest price a provider quotes
MaxTotal == 2
\* most rooms / listings in a provider response
MaxRooms == 2

(***************************************************************************)
(* str methods and re.sub, on sequences of code points.                    *)
(***************************************************************************)
Range(s) == {s[i] : i \in DOMAIN s}

IsSpace(c) == c = 32 \/ c \in 9..13

\* str.lower(), ASCII
lower(s) == [i \in DOMAIN s |-> IF s[i] \in 65..90 THEN s[i] + 32 ELSE s[i]]

RECURSIVE lstrip(_)
lstrip(s) == IF s # <<>> /\ IsSpace(Head(s)) THEN lstrip(Tail(s)) ELSE s

RECURSIVE rstrip(_)
rstrip(s) ==
    IF s # <<>> /\ IsSpace(s[Len(s)]) THEN rstrip(SubSeq(s, 1, Len(s) - 1)) ELSE s

\* str.strip()
strip(s) == rstrip(lstrip(s))

StartsWith(s, p) == Len(p) <= Len(s) /\ SubSeq(s, 1, Len(p)) = p

RECURSIVE FindFrom(_, _, _)
FindFrom(s, sub, i) ==
    IF i + Len(sub) > Len(s) THEN -1
    ELSE IF SubSeq(s, i + 1, i + Len(sub)) = sub THEN i
    ELSE FindFrom(s, sub, i + 1)

\* str.find(sub): the lowest 0-based index where sub occurs in s, or -1
find(s, sub) == FindFrom(s, sub, 0)

\* every non-overlapping occurrence of the literal old removed, scanning from
\* the left: str.replace(old, "") and re.sub(old, "", s) for a literal pattern
RECURSIVE RemoveAll(_, _)
RemoveAll(old, s) ==
    IF old = <<>> \/ s = <<>> THEN s
    ELSE IF StartsWith(s, old)
         THEN RemoveAll(old, SubSeq(s, Len(old) + 1, Len(s)))
         ELSE <<Head(s)>> \o RemoveAll(old, Tail(s))

replace(s, old) == RemoveAll(old, s)

re_sub(pattern, s) == RemoveAll(pattern, s)

IsDigit(c) == c \in 48..57

RECURSIVE DigitsValue(_)
DigitsValue(s) ==
    IF s = <<>> THEN 0 ELSE 10 * DigitsValue(SubSeq(s, 1, Len(s) - 1)) + (s[Len(s)] - 48)

\* int(str): surrounding whitespace ignored; anything but digits raises ValueError
int_ok(s) == strip(s) # <<>> /\ \A c \in Range(strip(s)) : IsDigit(c)

int_value(s) == DigitsValue(strip(s))

\* tuple comparison of strings, as Python orders str: by code point, a proper
\* prefix first
RECURSIVE StrLess(_, _)
StrLess(a, b) ==
    IF b = <<>> THEN FALSE
    ELSE IF a = <<>> THEN TRUE
    ELSE IF Head(a) # Head(b) THEN Head(a) < Head(b)
    ELSE StrLess(Tail(a), Tail(b))

(***************************************************************************)
(* RoomRate and the best-rate reduction.                                   *)
(***************************************************************************)
RoomRate(provider, hotel_name, room_type, total, policy) ==
    [provider |-> provider, hotel_name |-> hotel_name, room_type |-> room_type,
     total |-> total, policy |-> policy]

DefaultPolicy == "Unknown"

Key(rate) == <<rate.room_type, rate.policy>>

\* the index of key in the dict (a sequence of [key, value] in insertion
\* order), 0 when absent
RECURSIVE DictIndex(_, _, _)
DictIndex(d, key, i) ==
    IF i > Len(d) THEN 0
    ELSE IF d[i].key = key THEN i
    ELSE DictIndex(d, key, i + 1)

\* (mutation) the stored record is replaced when the new total is higher
DictPutMax(room_rates, rate) ==
    LET i == DictIndex(room_rates, Key(rate), 1) IN
    IF i # 0
    THEN IF room_rates[i].value.total < rate.total
         THEN [room_rates EXCEPT ![i].value = rate]
         ELSE room_rates
    ELSE Append(room_rates, [key |-> Key(rate), value |-> rate])

\* (mutation) the stored record is replaced also when the totals are equal
DictPutLast(room_rates, rate) ==
    LET i == DictIndex(room_rates, Key(rate), 1) IN
    IF i # 0
    THEN IF room_rates[i].value.total >= rate.total
         THEN [room_rates EXCEPT ![i].value = rate]
         ELSE room_rates
    ELSE Append(room_rates, [key |-> Key(rate), value |-> rate])

\* one iteration of the loop of _best_rates: a dict assignment to a key
\* already present keeps the key's position
DictPut(room_rates, rate) ==
    LET i == DictIndex(room_rates, Key(rate), 1) IN
    IF i # 0
    THEN IF room_rates[i].value.total > rate.total
         THEN [room_rates EXCEPT ![i].value = rate]
         ELSE room_rates
    ELSE Append(room_rates, [key |-> Key(rate), value |-> rate])

RECURSIVE BestLoop(_, _, _)
BestLoop(rates, i, room_rates) ==
    IF i > Len(rates) THEN room_rates
    ELSE BestLoop(rates, i + 1, DictPut(room_rates, rates[i]))

DictValues(d) == [i \in DOMAIN d |-> d[i].value]

\* the order of the sort keys: "total" is key=lambda x: x.total, "hotel_total"
\* is key=lambda x: (x.hotel_name, x.total)
KeyLess(key, x, y) ==
    IF key = "total" THEN x.total < y.total
    ELSE \/ StrLess(x.hotel_name, y.hotel_name)
         \/ x.hotel_name = y.hotel_name /\ x.total < y.total

\* list.sort(key=...) is stable: x goes after every element that is not
\* greater than it
RECURSIVE InsertSorted(_, _, _)
InsertSorted(sorted, x, key) ==
    IF sorted = <<>> THEN <<x>>
    ELSE IF KeyLess(key, x, sorted[Len(sorted)])
         THEN InsertSorted(SubSeq(sorted, 1, Len(sorted) - 1), x, key)
                  \o <<sorted[Len(sorted)]>>
         ELSE Append(sorted, x)

RECURSIVE sort(_, _)
sort(list, key) ==
    IF list = <<>> THEN <<>>
    ELSE InsertSorted(sort(SubSeq(list, 1, Len(list) - 1), key), list[Len(list)], key)

_best_rates(rates) == sort(DictValues(BestLoop(rates, 1, <<>>)), "total")

(***************************************************************************)
(* The provider response parsers.  A parser returns [ok |-> TRUE, rates]   *)
(* or, when it raises, [ok |-> FALSE, err].                                *)
(*   booking data:  data.block, a sequence of                              *)
(*                  [name, amount_rounded, policy]                         *)
(*   hotels data:   data.categorizedListings = [null, items], items a      *)
(*                  sequence of [primarySelections], each selection a      *)
(*                  propertyUnit [header, ratePlans], each rate plan the   *)
(*                  sequence of the amounts of its priceDetails            *)
(***************************************************************************)
Ok(rates) == [ok |-> TRUE, rates |-> rates]

Raise(err) == [ok |-> FALSE, err |-> err]

RECURSIVE ApplyPatterns(_, _)
ApplyPatterns(room_patterns, room_type) ==
    IF room_patterns = <<>> THEN room_type
    ELSE ApplyPatterns(Tail(room_patterns), re_sub(Head(room_patterns), room_type))

\* (mutation) the room name is looked for inside the filter term
FilteredOutReversed(room_type, room_filter) ==
    /\ room_filter # {}
    /\ \A room \in room_filter : find(room, strip(lower(room_type))) = -1

\* the condition of the "continue" of both parsers
FilteredOut(room_type, room_filter) ==
    /\ room_filter # {}
    /\ \A room \in room_filter : find(strip(lower(room_type)), room) = -1

Pound == <<163>>

Comma == <<44>>

RECURSIVE BookingLoop(_, _, _, _, _, _)
BookingLoop(hotel_name, block, i, room_filter, room_patterns, rates) ==
    IF i > Len(block) THEN Ok(rates)
    ELSE LET room      == block[i]
             room_type == ApplyPatterns(room_patterns, room.name)
             amount    == replace(replace(room.amount_rounded, Pound), Comma)
         IN  IF FilteredOut(room_type, room_filter)
             THEN BookingLoop(hotel_name, block, i + 1, room_filter, room_patterns, rates)
             ELSE IF ~int_ok(amount) THEN Raise("ValueError")
             ELSE BookingLoop(hotel_name, block, i + 1, room_filter, room_patterns,
                      Append(rates, RoomRate("booking.com", hotel_name, room_type,
                                             int_value(amount), room.policy)))

_process_booking_com_rates(hotel_name, data, room_filter, room_patterns) ==
    BookingLoop(hotel_name, data.block, 1, room_filter, room_patterns, <<>>)

RECURSIVE Flatten(_)
Flatten(lists) == IF lists = <<>> THEN <<>> ELSE Head(lists) \o Flatten(Tail(lists))

\* the records of one property unit: one per rate plan and price detail
UnitRates(hotel_name, room_type, ratePlans) ==
    LET amounts == Flatten(ratePlans) IN
    [k \in DOMAIN amounts |->
        RoomRate("hotels.com", hotel_name, room_type, amounts[k], DefaultPolicy)]

\* (mutation) only a listing with no selection at all is refused
SelectionsRefusedNone(primarySelections) == Len(primarySelections) = 0

\* the guard of the raise of _process_hotels_com_rates
SelectionsRefused(primarySelections) == Len(primarySelections) # 1

\* (mutation) the filter is tested after the patterns, as the booking parser does
HotelsListingNormalizedFirst(hotel_name, room, rooms_filter, room_patterns) ==
    LET room_type == ApplyPatterns(room_patterns, room.header) IN
    IF FilteredOut(room_type, rooms_filter) THEN <<>>
    ELSE UnitRates(hotel_name, room_type, room.ratePlans)

\* the body of the listing loop after the guard: the records the listing adds
HotelsListing(hotel_name, room, rooms_filter, room_patterns) ==
    LET room_type == room.header IN
    IF FilteredOut(room_type, rooms_filter) THEN <<>>
    ELSE UnitRates(hotel_name, ApplyPatterns(room_patterns, room_type), room.ratePlans)

RECURSIVE HotelsLoop(_, _, _, _, _, _)
HotelsLoop(hotel_name, listings, i, rooms_filter, room_patterns, rates) ==
    IF i > Len(listings) THEN Ok(rates)
    ELSE IF SelectionsRefused(listings[i].primarySelections) THEN Raise("ValueError")
    ELSE HotelsLoop(hotel_name, listings, i + 1, rooms_filter, room_patterns,
             rates \o HotelsListing(hotel_name, listings[i].primarySelections[1],
                                    rooms_filter, room_patterns))

_process_hotels_com_rates(hotel_name, data, rooms_filter, room_patterns) ==
    LET listings == IF data.categorizedListings.null THEN <<>>
                    ELSE data.categorizedListings.items
    IN  HotelsLoop(hotel_name, listings, 1, rooms_filter, room_patterns, <<>>)

\* room_filter = {room.lower().strip() for room in room_filter}
NormalizeFilter(room_filter) == {strip(lower(room)) : room \in room_filter}

\* return _best_rates(_process_..._rates(...)): an exception of the parser
\* passes through
BestOf(parsed) == IF parsed.ok THEN Ok(_best_rates(parsed.rates)) ELSE parsed

\* booking_com_rates once rapid_api_request has returned data
booking_com_rates(hotel_name, data, room_filter, room_patterns) ==
    BestOf(_process_booking_com_rates(hotel_name, data, NormalizeFilter(room_filter),
                                      room_patterns))

\* hotels_com_rates once rapid_api_request has returned data
hotels_com_rates(hotel_name, data, room_filter, room_patterns) ==
    BestOf(_process_hotels_com_rates(hotel_name, data, NormalizeFilter(room_filter),
                                     room_patterns))

(***************************************************************************)
(* Inputs of the functions checked on their own.                           *)
(***************************************************************************)
\* "Dx Su", "St Rm", "Su -N", "Su"
RoomNames ==
    { <<68, 120, 32, 83, 117>>, <<83, 116, 32, 82, 109>>,
      <<83, 117, 32, 45, 78>>, <<83, 117>> }

\* {}, {"su"}, {" Su -N"}, {"-N ", "st"}: filter sets as configured, before
\* lower() and strip()
RoomFilters ==
    { {}, {<<115, 117>>}, {<<32, 83, 117, 32, 45, 78>>},
      {<<45, 78, 32>>, <<115, 116>>} }

\* [], [" -N"], ["Su", " -N"]
RoomPatterns == { <<>>, << <<32, 45, 78>> >>, << <<83, 117>>, <<32, 45, 78>> >> }

\* "B", "A": hotel names, the later one in the alphabet configured first
HotelB == <<66>>

HotelA == <<65>>

SeqsUpTo(S, n) == UNION {[1..k -> S] : k \in 0..n}

RECURSIVE DigitsOf(_)
DigitsOf(n) == IF n < 10 THEN <<48 + n>> ELSE DigitsOf(n \div 10) \o <<48 + (n % 10)>>

\* amount_rounded as the booking provider writes it: "£2"
AmountStr(n) == Pound \o DigitsOf(n)

Totals == 1..MaxTotal

\* rooms "Su" and "Rm"; "Su" from both providers and under two policies
RateUniverse ==
    { RoomRate(p, HotelA, <<83, 117>>, t, DefaultPolicy) :
          p \in {"booking.com", "hotels.com"}, t \in Totals }
    \cup { RoomRate("booking.com", HotelA, <<82, 109>>, t, DefaultPolicy) : t \in Totals }
    \cup { RoomRate("booking.com", HotelA, <<83, 117>>, t, "Free") : t \in Totals }

BookingBlocks(names, totals) ==
    { [name |-> n, amount_rounded |-> AmountStr(t), policy |-> "Free"] :
          n \in names, t \in totals }

\* no rate plan; one plan of one price; two plans, of two prices and of one
RatePlanLists == { <<>>, << <<1>> >>, << <<MaxTotal, 1>>, <<MaxTotal>> >> }

\* listings with exactly one primary selection
SingleListings(names, plans) ==
    { [primarySelections |-> << [header |-> n, ratePlans |-> rp] >>] :
          n \in names, rp \in plans }

\* a listing with two primary selections
TwoRooms ==
    [primarySelections |->
        << [header |-> <<83, 117>>, ratePlans |-> << <<1>> >>],
           [header |-> <<83, 116, 32, 82, 109>>, ratePlans |-> << <<1>> >>] >>]

\* a listing with no primary selection
NoRoom == [primarySelections |-> <<>>]

BookingData(blocks, n) == { [block |-> b] : b \in SeqsUpTo(blocks, n) }

HotelsData(listings, n) ==
    { [categorizedListings |-> [null |-> FALSE, items |-> l]] : l \in SeqsUpTo(listings, n) }
    \cup { [categorizedListings |-> [null |-> TRUE, items |-> <<>>]] }

FnInputs ==
    { [fn |-> "_best_rates", rates |-> r] : r \in SeqsUpTo(RateUniverse, MaxRates) }
    \cup { [fn |-> "booking_com_rates", data |-> d, room_filter |-> f,
            room_patterns |-> p] :
               d \in BookingData(BookingBlocks(RoomNames, {1}), MaxRooms),
               f \in RoomFilters,
               p \in RoomPatterns }
    \cup { [fn |-> "hotels_com_rates", data |-> d, room_filter |-> f,
            room_patterns |-> p] :
               d \in HotelsData(SingleListings(RoomNames, RatePlanLists \ {<<>>})
                                     \cup {TwoRooms, NoRoom}, MaxRooms),
               f \in RoomFilters,
               p \in RoomPatterns }
    \cup { [fn |-> "room", name |-> n, total |-> t, ratePlans |-> rp,
            room_filter |-> f, room_patterns |-> p] :
               n \in RoomNames, t \in Totals, rp \in RatePlanLists,
               f \in RoomFilters, p \in RoomPatterns }

(***************************************************************************)
(* The configuration (Prefect variables "hotels" and "stays").             *)
(***************************************************************************)
None == [some |-> FALSE]

Some(v) == [some |-> TRUE, val |-> v]

\* bool(hotel.booking_id): None and 0 are false
TruthyInt(id) == id.some /\ id.val # 0

\* bool(hotel.hotels_id): None and "" are false
TruthyStr(id) == id.some /\ id.val # <<>>

HotelC == <<67>>

HotelD == <<68>>

HotelZ == <<90>>

\* "B": booking.com only, no room filter, " -N" removed from room names
CfgHotelB(enabled) ==
    [name |-> HotelB, booking_id |-> Some(1), hotels_id |-> None, enabled |-> enabled,
     room_filter |-> {}, room_patterns |-> << <<32, 45, 78>> >>]

\* "A": both providers, rooms filtered by "su", " -N" removed from room names
CfgHotelA(enabled) ==
    [name |-> HotelA, booking_id |-> Some(2), hotels_id |-> Some(<<120>>),
     enabled |-> enabled, room_filter |-> {<<115, 117>>},
     room_patterns |-> << <<32, 45, 78>> >>]

\* "C": both providers, disabled
CfgHotelC ==
    [name |-> HotelC, booking_id |-> Some(3), hotels_id |-> Some(<<121>>),
     enabled |-> FALSE, room_filter |-> {}, room_patterns |-> <<>>]

\* "D": enabled, booking_id 0 and hotels_id ""
CfgHotelD ==
    [name |-> HotelD, booking_id |-> Some(0), hotels_id |-> Some(<<>>),
     enabled |-> TRUE, room_filter |-> {}, room_patterns |-> <<>>]

HotelsVariables ==
    { <<CfgHotelB(eb), CfgHotelA(ea), CfgHotelC, CfgHotelD>> : eb, ea \in BOOLEAN }

CfgStay(name, check_in, check_out, names) ==
    [name |-> name, check_in |-> check_in, check_out |-> check_out, hotels |-> names]

StayWeek == CfgStay("s1", <<2026, 2, 22>>, <<2026, 2, 28>>, {HotelB, HotelA, HotelC})

StayA == CfgStay("s2", <<2026, 3, 29>>, <<2026, 4, 3>>, {HotelA, HotelD})

\* names no enabled hotel
StayNone == CfgStay("s3", <<2026, 5, 1>>, <<2026, 5, 2>>, {HotelC, HotelZ})

\* names only the hotel without usable identifiers
StayD == CfgStay("s4", <<2026, 6, 1>>, <<2026, 6, 2>>, {HotelD})

\* the name of StayWeek again, other dates
StayAgain == CfgStay("s1", <<2026, 7, 1>>, <<2026, 7, 8>>, {HotelB})

StaysVariables ==
    { <<>>, <<StayWeek>>, <<StayNone, StayWeek>>, <<StayWeek, StayA>>,
      <<StayD, StayA>>, <<StayWeek, StayAgain>>, <<StayA, StayNone, StayD>> }

(***************************************************************************)
(* Provider responses during a run.                                        *)
(***************************************************************************)
\* "Su -N"
RunRoomNames == { <<83, 117, 32, 45, 78>> }

\* a room whose amount_rounded is "£": int("") raises ValueError
BadBlocks == { [name |-> <<83, 117>>, amount_rounded |-> Pound, policy |-> "Free"] }

RunBookingData == BookingData(BookingBlocks(RunRoomNames, Totals) \cup BadBlocks, MaxRooms)

RunHotelsData ==
    HotelsData(SingleListings(RunRoomNames, RatePlanLists) \cup {TwoRooms}, MaxRooms)

(***************************************************************************)
(* The report run: run_report, get_hotels, get_stays, get_stay_rates,      *)
(* rapid_api_request, send_mail.                                           *)
(***************************************************************************)
VARIABLES
    cfg_hotels,     \* Variable.get("hotels")
    cfg_stays,      \* Variable.get("stays")
    pc,             \* where run_report is
    hotels,         \* run_report: hotels
    stays,          \* run_report: stays
    stay_i,         \* get_stay_rates: the index of "stay" in stays
    call_k,         \* get_stay_rates: the index of the next provider call of the stay
    booking_rates,  \* get_stay_rates: the lists booking_com_rates returned
    hotels_rates,   \* get_stay_rates: the lists hotels_com_rates returned
    stay_rates,     \* get_stay_rates: the dict, [key, value] in insertion order
    req,            \* the task run of rapid_api_request: [run_count, state]
    error,          \* the exception that ended the run, "" if none
    html,           \* run_report: html
    outbox,         \* the mails handed to the SMTP server
    calls,          \* history: the arguments of every provider call made
    returned,       \* history: the provider calls that returned a list
    best_acc,       \* history: per call of the stay, the cheapest parsed record of each key
    stored,         \* history: the stay stored last, with its best_acc
    fetched,        \* history: for each stay processed, the stay and its all_rates
    fn_in,          \* the input of a function applied on its own
    fn_out          \* its result

runvars ==
    <<pc, hotels, stays, stay_i, call_k, booking_rates, hotels_rates, stay_rates, req,
      error, html, outbox, calls, returned, best_acc, stored, fetched>>

\* what a report run leaves alone
idle == <<cfg_hotels, cfg_stays, fn_in, fn_out>>

vars == <<cfg_hotels, cfg_stays, runvars, fn_in, fn_out>>

NotApplied == [done |-> FALSE]

\* @task(retries=3, retry_delay_seconds=15)
retries == 3

NewRequest == [run_count |-> 0, state |-> "Pending"]

Recipients == <<"axtellpete@gmail.com">>

\* (mutation) the disabled hotels are returned too
get_hotels_all(variable) == variable

\* hotels = tuple(Hotel(**h) ...); enabled_hotels = tuple(h for h in hotels if h.enabled)
get_hotels(variable) == SelectSeq(variable, LAMBDA h : h.enabled)

Stay(name, check_in, check_out, stay_hotels) ==
    [name |-> name, check_in |-> check_in, check_out |-> check_out, hotels |-> stay_hotels]

RECURSIVE StaysLoop(_, _, _, _)
StaysLoop(enabled_hotels, variable, i, acc) ==
    IF i > Len(variable) THEN acc
    ELSE LET stay        == variable[i]
             stay_hotels == SelectSeq(enabled_hotels, LAMBDA h : h.name \in stay.hotels)
         IN  StaysLoop(enabled_hotels, variable, i + 1,
                 IF stay_hotels # <<>>
                 THEN Append(acc, Stay(stay.name, stay.check_in, stay.check_out, stay_hotels))
                 ELSE acc)

get_stays(enabled_hotels, variable) == StaysLoop(enabled_hotels, variable, 1, <<>>)

Call(provider, hotel, hotel_id, stay) ==
    [provider |-> provider, hotel_name |-> hotel.name, hotel_id |-> hotel_id,
     check_in |-> stay.check_in, check_out |-> stay.check_out,
     room_filter |-> hotel.room_filter, room_patterns |-> hotel.room_patterns]

\* the provider calls of the two list comprehensions, in the order they are made
StayCalls(stay) ==
    LET b == SelectSeq(stay.hotels, LAMBDA h : TruthyInt(h.booking_id))
        h == SelectSeq(stay.hotels, LAMBDA x : TruthyStr(x.hotels_id))
    IN  [i \in DOMAIN b |-> Call("booking.com", b[i], b[i].booking_id.val, stay)]
        \o [i \in DOMAIN h |-> Call("hotels.com", h[i], h[i].hotels_id.val, stay)]

\* stay_rates[key] = value
DictSet(d, key, value) ==
    LET i == DictIndex(d, key, 1) IN
    IF i # 0 THEN [d EXCEPT ![i].value = value]
    ELSE Append(d, [key |-> key, value |-> value])

\* (mutation) the lists are concatenated and not sorted
AllRatesUnsorted(b_rates, h_rates) == Flatten(b_rates) \o Flatten(h_rates)

\* (mutation) the combined list is reduced again before it is sorted
AllRatesReduced(b_rates, h_rates) ==
    sort(_best_rates(Flatten(b_rates) \o Flatten(h_rates)), "hotel_total")

\* all_rates of get_stay_rates
AllRates(b_rates, h_rates) == sort(Flatten(b_rates) \o Flatten(h_rates), "hotel_total")

BagOfSeq(s) == [x \in Range(s) |-> Cardinality({i \in DOMAIN s : s[i] = x})]

\* the cheapest records of a parsed list, one per (room_type, policy)
CheapestPerKey(rates) ==
    SetToBag({r \in Range(rates) :
                 \A q \in Range(rates) : Key(q) = Key(r) => r.total <= q.total})

InStay == pc = "get_stay_rates" /\ stay_i <= Len(stays)

CurrentCall == StayCalls(stays[stay_i])[call_k]

Calling(provider) ==
    /\ InStay
    /\ call_k <= Len(StayCalls(stays[stay_i]))
    /\ CurrentCall.provider = provider

RunInit ==
    /\ pc = "get_hotels"
    /\ hotels = <<>> /\ stays = <<>>
    /\ stay_i = 1 /\ call_k = 1
    /\ booking_rates = <<>> /\ hotels_rates = <<>> /\ stay_rates = <<>>
    /\ req = NewRequest
    /\ error = ""
    /\ html = None
    /\ outbox = <<>>
    /\ calls = {} /\ returned = {}
    /\ best_acc = EmptyBag
    /\ stored = None
    /\ fetched = <<>>

Init ==
    /\ cfg_hotels \in HotelsVariables
    /\ cfg_stays \in StaysVariables
    /\ RunInit
    /\ fn_in = [fn |-> "none"]
    /\ fn_out = NotApplied

GetHotels ==
    /\ pc = "get_hotels"
    /\ hotels' = get_hotels(cfg_hotels)
    /\ pc' = "get_stays"
    /\ UNCHANGED <<stays, stay_i, call_k, booking_rates, hotels_rates, stay_rates, req,
                   error, html, outbox, calls, returned, best_acc, stored, fetched, idle>>

GetStays ==
    /\ pc = "get_stays"
    /\ stays' = get_stays(hotels, cfg_stays)
    /\ pc' = "get_stay_rates"
    /\ UNCHANGED <<hotels, stay_i, call_k, booking_rates, hotels_rates, stay_rates, req,
                   error, html, outbox, calls, returned, best_acc, stored, fetched, idle>>

\* (mutation) the exception is swallowed and the call counts as an empty list
RaisedSwallowed(err, run_count, state) ==
    /\ req' = NewRequest
    /\ call_k' = call_k + 1
    /\ booking_rates' = IF CurrentCall.provider = "booking.com"
                        THEN Append(booking_rates, <<>>) ELSE booking_rates
    /\ hotels_rates' = IF CurrentCall.provider = "hotels.com"
                       THEN Append(hotels_rates, <<>>) ELSE hotels_rates
    /\ UNCHANGED <<pc, error, returned, best_acc>>

\* an exception leaves booking_com_rates / hotels_com_rates: nothing catches it
\* in get_stay_rates or run_report
Raised(err, run_count, state) ==
    /\ pc' = "failed"
    /\ error' = err
    /\ req' = [run_count |-> run_count, state |-> state]
    /\ UNCHANGED <<call_k, booking_rates, hotels_rates, returned, best_acc>>

\* the list a provider call returned is appended to its comprehension's list
Returned(provider, parsed, rates) ==
    /\ req' = NewRequest
    /\ call_k' = call_k + 1
    /\ booking_rates' = IF provider = "booking.com"
                        THEN Append(booking_rates, rates) ELSE booking_rates
    /\ hotels_rates' = IF provider = "hotels.com"
                       THEN Append(hotels_rates, rates) ELSE hotels_rates
    /\ returned' = returned \cup {CurrentCall}
    /\ best_acc' = best_acc (+) CheapestPerKey(parsed)
    /\ UNCHANGED <<pc, error>>

\* (mutation) the task is retried once more than configured
RetriesLeftOneMore(run_count) == run_count < retries + 1

\* Prefect retries while the failed runs so far are fewer than retries
RetriesLeft(run_count) == run_count < retries

\* what an attempt of rapid_api_request raises: RapidAPIError when httpx.get
\* fails or answers an error status, JSONDecodeError (no httpx.HTTPError, so
\* not wrapped) when the body is not JSON
RequestErrors == {"RapidAPIError", "JSONDecodeError"}

\* an attempt of rapid_api_request raises: Prefect retries it after the delay
\* until the retries are used up, then the exception leaves the task
RequestFails ==
    /\ \E provider \in {"booking.com", "hotels.com"} : Calling(provider)
    /\ calls' = calls \cup {CurrentCall}
    /\ IF RetriesLeft(req.run_count)
       THEN /\ req' = [run_count |-> req.run_count + 1, state |-> "AwaitingRetry"]
            /\ UNCHANGED <<pc, error, call_k, booking_rates, hotels_rates, returned,
                           best_acc>>
       ELSE \E err \in RequestErrors : Raised(err, req.run_count + 1, "Failed")
    /\ UNCHANGED <<hotels, stays, stay_i, stay_rates, html, outbox, stored, fetched, idle>>

\* rapid_api_request returns the JSON of booking.com; booking_com_rates
\* parses and reduces it
BookingReturns ==
    /\ Calling("booking.com")
    /\ calls' = calls \cup {CurrentCall}
    /\ \E data \in RunBookingData :
          LET c      == CurrentCall
              parsed == _process_booking_com_rates(c.hotel_name, data,
                            NormalizeFilter(c.room_filter), c.room_patterns)
              ret    == BestOf(parsed)
          IN  IF ret.ok THEN Returned("booking.com", parsed.rates, ret.rates)
              ELSE Raised(ret.err, req.run_count + 1, "Completed")
    /\ UNCHANGED <<hotels, stays, stay_i, stay_rates, html, outbox, stored, fetched, idle>>

\* rapid_api_request returns the JSON of hotels.com; hotels_com_rates parses
\* and reduces it
HotelsReturns ==
    /\ Calling("hotels.com")
    /\ calls' = calls \cup {CurrentCall}
    /\ \E data \in RunHotelsData :
          LET c      == CurrentCall
              parsed == _process_hotels_com_rates(c.hotel_name, data,
                            NormalizeFilter(c.room_filter), c.room_patterns)
              ret    == BestOf(parsed)
          IN  IF ret.ok THEN Returned("hotels.com", parsed.rates, ret.rates)
              ELSE Raised(ret.err, req.run_count + 1, "Completed")
    /\ UNCHANGED <<hotels, stays, stay_i, stay_rates, html, outbox, stored, fetched, idle>>

\* the end of the body of "for stay in stays": flatten, sort, store
StoreStay ==
    /\ InStay
    /\ call_k > Len(StayCalls(stays[stay_i]))
    /\ stay_rates' = DictSet(stay_rates, stays[stay_i].name,
                             AllRates(booking_rates, hotels_rates))
    /\ stay_i' = stay_i + 1
    /\ call_k' = 1
    /\ booking_rates' = <<>>
    /\ hotels_rates' = <<>>
    /\ stored' = Some([name |-> stays[stay_i].name, best |-> best_acc])
    /\ fetched' = Append(fetched, [stay |-> stays[stay_i],
                                   rates |-> AllRates(booking_rates, hotels_rates)])
    /\ best_acc' = EmptyBag
    /\ UNCHANGED <<pc, hotels, stays, req, error, html, outbox, calls, returned, idle>>

\* get_stay_rates returns; html = template.render(stays=stay_rates)
Render ==
    /\ pc = "get_stay_rates"
    /\ stay_i > Len(stays)
    /\ html' = Some(stay_rates)
    /\ pc' = "send_mail"
    /\ UNCHANGED <<hotels, stays, stay_i, call_k, booking_rates, hotels_rates, stay_rates,
                   req, error, outbox, calls, returned, best_acc, stored, fetched, idle>>

Mail == [to |-> Recipients, subject |-> "Daily Hotels Report", body |-> html.val]

\* send_mail(to=recipients, subject="Daily Hotels Report", body=html)
SendMail ==
    /\ pc = "send_mail"
    /\ outbox' = Append(outbox, Mail)
    /\ pc' = "done"
    /\ UNCHANGED <<hotels, stays, stay_i, call_k, booking_rates, hotels_rates, stay_rates,
                   req, error, html, calls, returned, best_acc, stored, fetched, idle>>

\* smtplib raises: before server.sendmail (connect, starttls, login), or in
\* server.quit() after the mail was handed over
SendMailFails ==
    /\ pc = "send_mail"
    /\ pc' = "failed"
    /\ error' = "SMTPException"
    /\ \E handed_over \in BOOLEAN :
          outbox' = IF handed_over THEN Append(outbox, Mail) ELSE outbox
    /\ UNCHANGED <<hotels, stays, stay_i, call_k, booking_rates, hotels_rates, stay_rates,
                   req, html, calls, returned, best_acc, stored, fetched, idle>>

Next ==
    \/ GetHotels
    \/ GetStays
    \/ RequestFails
    \/ BookingReturns
    \/ HotelsReturns
    \/ StoreStay
    \/ Render
    \/ SendMail
    \/ SendMailFails

Spec == Init /\ [][Next]_vars

\* every step of a run is a bounded wait (httpx timeout=60, the retry delay of
\* 15 s, smtplib timeout=30) or a computation: a run that can step does
FairSpec == Spec /\ WF_vars(Next)

(***************************************************************************)
(* The functions applied on their own to inputs drawn from FnInputs.        *)
(***************************************************************************)
\* no report run: the run's variables stay as constructed
FnInit ==
    /\ fn_in \in FnInputs
    /\ fn_out = NotApplied
    /\ cfg_hotels = <<>> /\ cfg_stays = <<>>
    /\ RunInit

ApplyBestRates ==
    /\ fn_in.fn = "_best_rates" /\ ~fn_out.done
    /\ fn_out' = [done |-> TRUE, ret |-> _best_rates(fn_in.rates)]
    /\ UNCHANGED <<fn_in, cfg_hotels, cfg_stays, runvars>>

ApplyBooking ==
    /\ fn_in.fn = "booking_com_rates" /\ ~fn_out.done
    /\ fn_out' =
          [done |-> TRUE,
           parsed |-> _process_booking_com_rates(HotelA, fn_in.data,
                          NormalizeFilter(fn_in.room_filter), fn_in.room_patterns),
           ret |-> booking_com_rates(HotelA, fn_in.data, fn_in.room_filter,
                                     fn_in.room_patterns)]
    /\ UNCHANGED <<fn_in, cfg_hotels, cfg_stays, runvars>>

ApplyHotels ==
    /\ fn_in.fn = "hotels_com_rates" /\ ~fn_out.done
    /\ fn_out' =
          [done |-> TRUE,
           parsed |-> _process_hotels_com_rates(HotelA, fn_in.data,
                          NormalizeFilter(fn_in.room_filter), fn_in.room_patterns),
           ret |-> hotels_com_rates(HotelA, fn_in.data, fn_in.room_filter,
                                    fn_in.room_patterns)]
    /\ UNCHANGED <<fn_in, cfg_hotels, cfg_stays, runvars>>

\* the same room offered by both providers, each parser on its own response
ApplyBothParsers ==
    /\ fn_in.fn = "room" /\ ~fn_out.done
    /\ fn_out' =
          [done |-> TRUE,
           booking |-> _process_booking_com_rates(HotelA,
                           [block |-> << [name |-> fn_in.name,
                                          amount_rounded |-> AmountStr(fn_in.total),
                                          policy |-> "Free"] >>],
                           NormalizeFilter(fn_in.room_filter), fn_in.room_patterns),
           hotels |-> _process_hotels_com_rates(HotelA,
                           [categorizedListings |->
                               [null |-> FALSE,
                                items |-> << [primarySelections |->
                                    << [header |-> fn_in.name,
                                        ratePlans |-> fn_in.ratePlans] >>] >>]],
                           NormalizeFilter(fn_in.room_filter), fn_in.room_patterns)]
    /\ UNCHANGED <<fn_in, cfg_hotels, cfg_stays, runvars>>

FnNext == ApplyBestRates \/ ApplyBooking \/ ApplyHotels \/ ApplyBothParsers

FnSpec == FnInit /\ [][FnNext]_vars

(***************************************************************************)
(* Properties of the functions on their own (checked under FnSpec).        *)
(***************************************************************************)
Indices(rates, key) == {i \in DOMAIN rates : Key(rates[i]) = key}

Min(S) == CHOOSE x \in S : \A y \in S : x <= y

\* C2: _best_rates returns exactly one record per distinct (room_type, policy)
\* key of its input; each returned record is an input record, and its total is
\* the minimum total among the input records sharing its key.
C2_OnePerKeyWithMinimum ==
    (fn_in.fn = "_best_rates" /\ fn_out.done) =>
        LET rin  == fn_in.rates
            rout == fn_out.ret
        IN  /\ \A i \in DOMAIN rin : Cardinality(Indices(rout, Key(rin[i]))) = 1
            /\ \A j \in DOMAIN rout :
                  /\ \E i \in DOMAIN rin : rin[i] = rout[j]
                  /\ \A i \in Indices(rin, Key(rout[j])) : rout[j].total <= rin[i].total

C2_Witness ==
    /\ fn_in.fn = "_best_rates" /\ fn_out.done
    /\ Len(fn_out.ret) = 2
    /\ \E i, j \in DOMAIN fn_in.rates :
          /\ i < j
          /\ Key(fn_in.rates[i]) = Key(fn_in.rates[j])
          /\ fn_in.rates[i].total > fn_in.rates[j].total

Listings(data) ==
    IF data.categorizedListings.null THEN <<>> ELSE data.categorizedListings.items

\* C4: a hotels-style response with a listing of two or more primary
\* selections makes _process_hotels_com_rates raise the multi-room error
\* (ValueError) and hotels_com_rates return no records, whatever the other
\* listings are; a response whose listings all have exactly one primary
\* selection does not raise.
C4_MultiRoomGuard ==
    (fn_in.fn = "hotels_com_rates" /\ fn_out.done) =>
        LET listings == Listings(fn_in.data) IN
        /\ (\E i \in DOMAIN listings : Len(listings[i].primarySelections) >= 2) =>
              /\ fn_out.parsed = Raise("ValueError")
              /\ fn_out.ret = Raise("ValueError")
        /\ (\A i \in DOMAIN listings : Len(listings[i].primarySelections) = 1) =>
              fn_out.parsed.ok /\ fn_out.ret.ok

\* a valid listing that yields records, followed by a listing of two rooms
C4_Witness ==
    /\ fn_in.fn = "hotels_com_rates" /\ fn_out.done
    /\ fn_in.room_filter = {}
    /\ Len(Listings(fn_in.data)) = 2
    /\ Len(Listings(fn_in.data)[1].primarySelections) = 1
    /\ Len(Listings(fn_in.data)[2].primarySelections) = 2
    /\ ~fn_out.parsed.ok

Occurs(sub, s) == \E i \in 0..(Len(s) - Len(sub)) : SubSeq(s, i + 1, i + Len(sub)) = sub

\* the room filter as stated: no filter, or some term inside the name
Retained(name, room_filter) ==
    \/ room_filter = {}
    \/ \E term \in room_filter : Occurs(strip(lower(term)), strip(lower(name)))

RoomTypes(rates) == [i \in DOMAIN rates |-> rates[i].room_type]

NumPrices(room) == Len(Flatten(room.ratePlans))

\* C6: with an empty filter set every room is retained; otherwise a room is
\* retained iff some filter term, lower-cased and trimmed, occurs inside the
\* lower-cased, trimmed room name.  booking_com_rates tests the name after the
\* patterns, hotels_com_rates the header text; the records parsed are those of
\* the retained rooms, in order.
C6_RoomFilter ==
    /\ (fn_in.fn = "booking_com_rates" /\ fn_out.done) =>
          LET Name(room) == ApplyPatterns(fn_in.room_patterns, room.name)
              Keep(room) == Retained(Name(room), fn_in.room_filter)
              kept       == SelectSeq(fn_in.data.block, Keep)
          IN  /\ fn_out.parsed.ok
              /\ RoomTypes(fn_out.parsed.rates) = [i \in DOMAIN kept |-> Name(kept[i])]
    /\ (fn_in.fn = "hotels_com_rates" /\ fn_out.done /\ fn_out.parsed.ok) =>
          LET listings == Listings(fn_in.data)
              Of(room) ==
                  IF Retained(room.header, fn_in.room_filter)
                  THEN [k \in 1..NumPrices(room) |->
                           ApplyPatterns(fn_in.room_patterns, room.header)]
                  ELSE <<>>
          IN  RoomTypes(fn_out.parsed.rates) =
                  Flatten([i \in DOMAIN listings |-> Of(listings[i].primarySelections[1])])

\* filter {"su"}, rooms "Dx Su" and "St Rm": only the first is retained
C6_Witness ==
    /\ fn_in.fn = "booking_com_rates" /\ fn_out.done
    /\ fn_in.room_filter = {<<115, 117>>}
    /\ fn_in.room_patterns = <<>>
    /\ Len(fn_in.data.block) = 2
    /\ fn_in.data.block[1].name = <<68, 120, 32, 83, 117>>
    /\ fn_in.data.block[2].name = <<83, 116, 32, 82, 109>>
    /\ RoomTypes(fn_out.parsed.rates) = << <<68, 120, 32, 83, 117>> >>

\* C7: the booking-style parser tests the filter against the name after the
\* patterns, the hotels-style parser against the raw header text, normalizing
\* only what passed: the booking parser emits the room's record iff the
\* normalized name passes, the hotels parser emits the room's records (one per
\* price detail, under the normalized name) iff the raw name passes.  So a room
\* whose raw name holds a filter term that the patterns remove is emitted by
\* the hotels parser and not by the booking parser.
C7_FilterOrderAsymmetry ==
    (fn_in.fn = "room" /\ fn_out.done) =>
        LET name == ApplyPatterns(fn_in.room_patterns, fn_in.name) IN
        /\ fn_out.booking.ok /\ fn_out.hotels.ok
        /\ RoomTypes(fn_out.booking.rates) =
              IF Retained(name, fn_in.room_filter) THEN <<name>> ELSE <<>>
        /\ RoomTypes(fn_out.hotels.rates) =
              IF Retained(fn_in.name, fn_in.room_filter)
              THEN [k \in 1..NumPrices(fn_in) |-> name]
              ELSE <<>>

C7_Witness ==
    /\ fn_in.fn = "room" /\ fn_out.done
    /\ Retained(fn_in.name, fn_in.room_filter)
    /\ ~Retained(ApplyPatterns(fn_in.room_patterns, fn_in.name), fn_in.room_filter)
    /\ fn_out.hotels.rates # <<>>
    /\ fn_out.booking.rates = <<>>

(***************************************************************************)
(* Properties of the report run (checked under Spec and FairSpec).         *)
(***************************************************************************)
DictGet(d, key) == d[DictIndex(d, key, 1)].value

DictKeys(d) == {d[i].key : i \in DOMAIN d}

\* C1 as stated: a stored list holds at most one record per (room_type,
\* policy) pair across the whole stay, with the minimum total of the pair.
C1_GlobalReduction ==
    \A n \in DOMAIN stay_rates :
        LET rates == stay_rates[n].value IN
        \A i, j \in DOMAIN rates : i # j => Key(rates[i]) # Key(rates[j])

\* C1 as amended: the list stored for a stay holds exactly the records of the
\* reductions done per provider call (per hotel and provider): for each call,
\* one record per (room_type, policy) pair of the call's parsed records, with
\* the minimum total among them; equal pairs of different calls are all kept.
C1_ReductionPerCall ==
    stored.some => BagOfSeq(DictGet(stay_rates, stored.val.name)) = stored.val.best

\* two hotels of the stay offered the same room under the same policy, one of
\* them at two prices
C1_Witness ==
    /\ stored.some
    /\ LET rates == DictGet(stay_rates, stored.val.name) IN
       \E i, j \in DOMAIN rates :
           /\ Key(rates[i]) = Key(rates[j])
           /\ rates[i].hotel_name # rates[j].hotel_name
           /\ rates[i].total < rates[j].total

\* a <= b as Python compares strings
StrLE(a, b) ==
    \/ \E k \in 1..Len(a) :
          /\ k <= Len(b)
          /\ SubSeq(a, 1, k - 1) = SubSeq(b, 1, k - 1)
          /\ a[k] < b[k]
    \/ Len(a) <= Len(b) /\ a = SubSeq(b, 1, Len(a))

\* C3: every list stored by get_stay_rates is non-decreasing in
\* (hotel_name, total), compared lexicographically.
C3_SortedByHotelThenTotal ==
    \A n \in DOMAIN stay_rates :
        LET rates == stay_rates[n].value IN
        \A i, j \in DOMAIN rates :
            i < j =>
                /\ StrLE(rates[i].hotel_name, rates[j].hotel_name)
                /\ rates[i].hotel_name = rates[j].hotel_name =>
                      rates[i].total <= rates[j].total

\* hotel "B" was fetched before hotel "A", and "A" from booking.com before
\* hotels.com at a lower hotels.com price
C3_Witness ==
    \E n \in DOMAIN stay_rates :
        LET rates == stay_rates[n].value IN
        /\ Len(rates) = 3
        /\ rates[1].hotel_name = HotelA /\ rates[1].provider = "hotels.com"
        /\ rates[2].hotel_name = HotelA /\ rates[2].provider = "booking.com"
        /\ rates[1].total < rates[2].total
        /\ rates[3].hotel_name = HotelB

ProvidersOf(h) ==
    {p \in {"booking.com", "hotels.com"} :
        IF p = "booking.com" THEN TruthyInt(h.booking_id) ELSE TruthyStr(h.hotels_id)}

Signature(provider, hotel_name, check_in, check_out) ==
    [provider |-> provider, hotel_name |-> hotel_name, check_in |-> check_in,
     check_out |-> check_out]

SignatureOf(c) == Signature(c.provider, c.hotel_name, c.check_in, c.check_out)

\* the provider calls the configuration asks for: one per stay, enabled hotel
\* the stay names, and provider the hotel has an identifier of
RequiredOf(st) ==
    UNION { { Signature(p, h.name, st.check_in, st.check_out) : p \in ProvidersOf(h) } :
                h \in {x \in Range(cfg_hotels) : x.enabled /\ x.name \in st.hotels} }

RequiredCalls == UNION { RequiredOf(st) : st \in Range(cfg_stays) }

ProviderErrors == RequestErrors \cup {"ValueError"}

\* C5: at most one email is sent, and only once every provider call of every
\* hotel of every stay has returned; when a provider call or a parse fails the
\* run ends there: no email, nothing rendered, no further step.
C5_EmailOnlyAfterAllCalls ==
    /\ Len(outbox) <= 1
    /\ outbox # <<>> => RequiredCalls \subseteq {SignatureOf(c) : c \in returned}
    /\ error # "" => pc = "failed"
    /\ (pc = "failed" /\ error \in ProviderErrors) =>
          /\ outbox = <<>>
          /\ ~html.some
          /\ ~ENABLED Next

\* a listing failed to parse after an earlier stay was stored and an earlier
\* hotel of this stay had returned its rates
C5_Witness ==
    /\ pc = "failed" /\ error = "ValueError"
    /\ stay_rates # <<>> /\ stay_rates[1].value # <<>>
    /\ booking_rates # <<>>
    /\ outbox = <<>>

Dropped(st) == ~\E h \in Range(cfg_hotels) : h.enabled /\ h.name \in st.hotels

\* C8: every provider call is for an enabled hotel named by a configured stay,
\* with that stay's dates and the hotel's identifier for the provider, the
\* identifier being set; a configured stay naming no enabled hotel gets no
\* call, is not among the stays processed, and adds no entry to the output.
C8_CallsOnlyForEnabledNamedHotels ==
    /\ \A c \in calls :
          \E h \in Range(cfg_hotels), st \in Range(cfg_stays) :
              /\ h.enabled
              /\ h.name = c.hotel_name /\ h.name \in st.hotels
              /\ st.check_in = c.check_in /\ st.check_out = c.check_out
              /\ c.provider = "booking.com" => h.booking_id = Some(c.hotel_id)
              /\ c.provider = "hotels.com" => h.hotels_id = Some(c.hotel_id)
    /\ \A st \in Range(cfg_stays) :
          Dropped(st) =>
              /\ \A c \in calls : c.check_in # st.check_in
              /\ \A i \in DOMAIN stays : stays[i].check_in # st.check_in
    /\ DictKeys(stay_rates) \subseteq {st.name : st \in {x \in Range(cfg_stays) : ~Dropped(x)}}

\* a run that ended with calls made, for a configuration with a stay naming
\* only a disabled and an unknown hotel and a stay naming a disabled hotel too
C8_Witness ==
    /\ pc = "done"
    /\ cfg_stays = <<StayNone, StayWeek>>
    /\ Cardinality(calls) = 3
    /\ DictKeys(stay_rates) = {"s1"}

Terminated ==
    \/ pc = "done" /\ Len(outbox) = 1
    \/ pc = "failed" /\ error # ""

\* C10: a request is attempted at most 1 + 3 times; an attempt that succeeds
\* ends the request (the next attempt belongs to the next call); when all four
\* attempts fail the run fails with the error of the request; and every run
\* eventually ends, with the email sent or with a failure.
C10_BoundedRetriesThenTermination ==
    /\ [](/\ req.run_count <= 1 + 3
          /\ req.state = "AwaitingRetry" => req.run_count <= 3
          /\ req.state = "Failed" =>
                req.run_count = 1 + 3 /\ pc = "failed" /\ error \in RequestErrors)
    /\ [][returned' # returned =>
              req' = NewRequest /\ <<stay_i', call_k'>> # <<stay_i, call_k>>]_vars
    /\ <>Terminated

\* all four attempts of a request failed
C10_Witness ==
    /\ req = [run_count |-> 4, state |-> "Failed"]
    /\ pc = "failed" /\ error = "RapidAPIError"

\* C11: the output of get_stay_rates is equivalent to a list of (Stay, rates)
\* pairs: once get_stay_rates has returned, its output has exactly one entry
\* for each stay returned by get_stays, and the entry of a stay (the one under
\* the stay's name) holds the rates fetched for that stay's own hotels and
\* dates.
C11_OneEntryPerStay ==
    pc \in {"send_mail", "done"} =>
        /\ Len(stay_rates) = Len(stays)
        /\ \A i \in DOMAIN stays :
              /\ fetched[i].stay = stays[i]
              /\ \E j \in DOMAIN stay_rates :
                    /\ stay_rates[j].key = stays[i].name
                    /\ stay_rates[j].value = fetched[i].rates

=============================================================================
